---- MODULE Spec2Model ----
(***************************************************************************)
(* DataNormalizer (Sun Tracker, Arduino library).                          *)
(*                                                                         *)
(* The multi-channel normalizer of DataNormalizer.cpp / DataNormalizer.h   *)
(* is modelled as a state machine: the object's fields are the variables,  *)
(* the constructor and the public operations are the actions.  The         *)
(* table-only (single sensor) revision's Compensate / FindPosition are     *)
(* modelled as operators, and its object as the record sensor with the     *)
(* constructor, Read and setRawValue as actions.  IndexOf and SensorCount   *)
(* are declared in the header and defined nowhere in the sources; they are *)
(* not modelled.                                                           *)
(*                                                                         *)
(* Target: Arduino Uno (AVR, avr-gcc): int is 16 bits, long is 32 bits,    *)
(* byte is unsigned 8 bits and plain char is signed 8 bits.                *)
(*                                                                         *)
(* Memory: a C array of V ints is a "block", a sequence of V+1 words: the  *)
(* V elements followed by the word that happens to lie behind the array.   *)
(* The code never owns that word; what it holds is not fixed by the        *)
(* program, so it is chosen nondeterministically when the block is made.   *)
(* A pointer is a record [null, mem].                                      *)
(***************************************************************************)
EXTENDS Integers, Sequences, FiniteSets, TLC

VARIABLES
  phase,                \* "new" before the constructor ran, "constructed" after
  args,                 \* the constructor's arguments (kept for the claims)
  _StatusCode,          \* ErrorCodes _StatusCode
  _SensorCount,         \* byte _SensorCount
  _VectorSize,          \* byte _VectorSize
  _Pins,                \* byte _Pins[MAX_NUM_ANALOGUE_INPUTS]
  _CalibrationVectors,  \* const int* _CalibrationVectors[MAX_NUM_ANALOGUE_INPUTS]
  _NormalizedVector,    \* const int* _NormalizedVector
  _Inputs,              \* BaseAnalogRead* _Inputs[..]: TRUE = non-null
  _IOwnInputs,          \* bool _IOwnInputs
  Readings,             \* int Readings[MAX_NUM_ANALOGUE_INPUTS]
  Normalized,           \* int Normalized[MAX_NUM_ANALOGUE_INPUTS]
  _SegmentBases,        \* int _SegmentBases[MAX_NUM_ANALOGUE_INPUTS]
  lastOp,               \* the public operation called last
  ret,                  \* what it returned
  trace,                \* the member functions it entered, in order
  sensor                \* the object of the table-only revision, a record

vars == <<phase, args, _StatusCode, _SensorCount, _VectorSize, _Pins,
          _CalibrationVectors, _NormalizedVector, _Inputs, _IOwnInputs,
          Readings, Normalized, _SegmentBases, lastOp, ret, trace, sensor>>

(***************************************************************************)
(* Program constants.                                                      *)
(***************************************************************************)
SEGMENT_INDEX_LOW == -1
SEGMENT_INDEX_HIGH == -2
MAX_NUM_ANALOGUE_INPUTS == 6

ErrorCodes == {"S_OK", "F_Uninitialized", "F_BadNumberOfSensors", "F_NoSensorList",
               "F_BadPinNumber", "F_BadVectorSize", "F_MissingCalibrationVector",
               "F_MissingNormalizedVector"}

(***************************************************************************)
(* Bounds of the model.                                                    *)
(***************************************************************************)
MaxVectorSize == 3      \* small tables have 1..MaxVectorSize elements
MaxRaw == 5             \* small tables' breakpoints lie in 1..MaxRaw-1
BigV == 130             \* the size of the one long table

Channels == 0 .. (MAX_NUM_ANALOGUE_INPUTS - 1)

\* What the word behind an array may hold: below every sample, or above.
PastWords == {0, 1000}

(***************************************************************************)
(* Pointers and blocks.                                                    *)
(***************************************************************************)
NULL == [null |-> TRUE, mem |-> <<>>]
Ptr(block) == [null |-> FALSE, mem |-> block]

\* p[i] in C: element i of the block p points to (i = length: the word behind).
At(p, i) == p.mem[i + 1]

\* The array a block holds, without the word behind it.
Elements(p) == SubSeq(p.mem, 1, Len(p.mem) - 1)

StrictlyAscending(s) == \A i \in 1 .. (Len(s) - 1) : s[i] < s[i + 1]

(***************************************************************************)
(* Integer conversions of the target.                                      *)
(***************************************************************************)
\* int -> char (signed, 8 bits): the value modulo 2^8.
ToChar(x) == ((x + 128) % 256) - 128

\* long -> int (signed, 16 bits): the value modulo 2^16.
ToInt(x) == ((x + 32768) % 65536) - 32768

\* C's integer division: the quotient truncated toward zero.
Abs(x) == IF x < 0 THEN -x ELSE x
TruncDiv(a, b) ==
  IF (a >= 0) = (b > 0) THEN Abs(a) \div Abs(b) ELSE -(Abs(a) \div Abs(b))

\* Arduino's map(), called by Compensate: long arithmetic, the result
\* converted to Compensate's int.  TLC's integers are 32 bits wide and an
\* overflow is an error of the run, as it is undefined in a long.
map(x, in_min, in_max, out_min, out_max) ==
  ToInt(TruncDiv((x - in_min) * (out_max - out_min), in_max - in_min) + out_min)

(***************************************************************************)
(* The interpolator of the multi-channel normalizer.                       *)
(***************************************************************************)
\* char FindPosition(int aValue, const int* aVector): the loop runs i over
\* 0 .. _VectorSize inclusive, so its last comparison reads the word behind
\* the array; both returns pass through the char return type.
\* (The loop returns at the first i that matches: the least one.  _VectorSize
\* is below 255 in every configuration drawn, so the byte i does not wrap.)
First(hits) == CHOOSE i \in hits : \A j \in hits : i <= j
FindPosition(aValue, aVector) ==
  LET hits == {i \in 0 .. _VectorSize : aValue <= At(aVector, i)} IN
  IF hits = {} THEN ToChar(_VectorSize) ELSE ToChar(First(hits) - 1)

\* Two faulty variants of Compensate, for the mutation checks of C8 and C7:
\* the segment's breakpoints handed to map() in the wrong order, and an
\* extrapolation below the table instead of the clamp.
CompensateSwapped(aValue, aVector) ==
  LET pos == FindPosition(aValue, aVector) IN
  IF pos < 0
    THEN [value |-> At(_NormalizedVector, 0), aIndex |-> SEGMENT_INDEX_LOW]
  ELSE IF pos >= _VectorSize
    THEN [value |-> At(_NormalizedVector, _VectorSize), aIndex |-> SEGMENT_INDEX_HIGH]
  ELSE [value |-> map(aValue, At(aVector, pos + 1), At(aVector, pos),
                      At(_NormalizedVector, pos), At(_NormalizedVector, pos + 1)),
        aIndex |-> pos]
CompensateNoLowClamp(aValue, aVector) ==
  LET pos == FindPosition(aValue, aVector) IN
  IF pos < 0
    THEN [value |-> map(aValue, At(aVector, 0), At(aVector, 1),
                        At(_NormalizedVector, 0), At(_NormalizedVector, 1)),
          aIndex |-> SEGMENT_INDEX_LOW]
  ELSE IF pos >= _VectorSize
    THEN [value |-> At(_NormalizedVector, _VectorSize), aIndex |-> SEGMENT_INDEX_HIGH]
  ELSE [value |-> map(aValue, At(aVector, pos), At(aVector, pos + 1),
                      At(_NormalizedVector, pos), At(_NormalizedVector, pos + 1)),
        aIndex |-> pos]
\* int Compensate(int aValue, const int* aVector, int* aIndex): the value
\* returned and what is left in *aIndex.
Compensate(aValue, aVector) ==
  LET pos == FindPosition(aValue, aVector) IN
  IF pos < 0
    THEN [value |-> At(_NormalizedVector, 0), aIndex |-> SEGMENT_INDEX_LOW]
  ELSE IF pos >= _VectorSize
    THEN [value |-> At(_NormalizedVector, _VectorSize), aIndex |-> SEGMENT_INDEX_HIGH]
  ELSE [value |-> map(aValue, At(aVector, pos), At(aVector, pos + 1),
                      At(_NormalizedVector, pos), At(_NormalizedVector, pos + 1)),
        aIndex |-> pos]

(***************************************************************************)
(* The interpolator of the table-only revision: the object holds           *)
(* _Count = aNumberOfArrayElements - 1, _Segments and _Normalized.         *)
(***************************************************************************)
\* char FindPosition(int aValue): i runs over 0 .. _Count, inside the array.
TableFindPosition(aValue, Count, Segments) ==
  LET hits == {i \in 0 .. Count : aValue <= At(Segments, i)} IN
  IF hits = {} THEN ToChar(Count) ELSE ToChar(First(hits) - 1)

\* int Compensate(int aValue): the value returned and what is left in _Segment.
TableCompensate(aValue, Count, Segments, NormalizedArray) ==
  LET lIndex == TableFindPosition(aValue, Count, Segments) IN
  IF lIndex < 0
    THEN [value |-> At(NormalizedArray, 0), aIndex |-> SEGMENT_INDEX_LOW]
  ELSE IF lIndex >= Count
    THEN [value |-> At(NormalizedArray, Count), aIndex |-> SEGMENT_INDEX_HIGH]
  ELSE [value |-> map(aValue, At(Segments, lIndex), At(Segments, lIndex + 1),
                      At(NormalizedArray, lIndex), At(NormalizedArray, lIndex + 1)),
        aIndex |-> lIndex]

(***************************************************************************)
(* DataNormalizer::Init: the validation, in the code's order.  An argument *)
(* record a holds n (aNumberOfSensors), pins (aSensorsToUse, an array of n *)
(* bytes), V (aVectorSize), calv (aCalibrationVectors, an array of n       *)
(* pointers), nv (aNormalizedVector) and calvPastNull: whether a word      *)
(* behind the pointer array, among those the loop over 0 .. V-1 reads when *)
(* V > n, is zero.                                                         *)
(***************************************************************************)
\* for(int i=0; i<aVectorSize; i++) if(aCalibrationVectors[i] == NULL)
CalibrationLoopFindsNull(a) ==
  \/ \E i \in 1 .. (IF a.V < a.n THEN a.V ELSE a.n) : a.calv[i].null
  \/ a.V > a.n /\ a.calvPastNull

Init(a) ==
  IF a.n > MAX_NUM_ANALOGUE_INPUTS THEN "F_BadNumberOfSensors"
  ELSE IF a.pins.null THEN "F_NoSensorList"
  ELSE IF \E i \in 1 .. a.n : a.pins.mem[i] >= MAX_NUM_ANALOGUE_INPUTS
    THEN "F_BadPinNumber"
  ELSE IF a.V < 2 THEN "F_BadVectorSize"
  ELSE IF CalibrationLoopFindsNull(a) THEN "F_MissingCalibrationVector"
  ELSE IF a.nv.null THEN "F_MissingNormalizedVector"
  ELSE "S_OK"

(***************************************************************************)
(* The inputs the model draws.                                             *)
(***************************************************************************)
\* Samples the analogue inputs deliver to a bank of several channels: one
\* vector of samples per Read, two values spread over the channels so that
\* every pairing of a table with a value occurs.
BankSamples == {2, 4}
BankSampleVectors ==
  {[i \in Channels |-> IF i % 3 = 0 THEN x ELSE y] : x \in BankSamples, y \in BankSamples}

\* aSensorsToUse: NULL, or n pin numbers, all valid or one of them out of range.
PinArrays(n) ==
  {NULL} \cup
  {Ptr([i \in 1 .. n |-> IF i = bad THEN MAX_NUM_ANALOGUE_INPUTS ELSE i - 1]) :
     bad \in 0 .. n}

\* The calibration table of channel c of a bank: two tables, alternating.
BankCalibration(V, c, w) ==
  Ptr([k \in 1 .. (V + 1) |-> IF k = V + 1 THEN w
                              ELSE IF c % 2 = 0 THEN 2 * k - 1 ELSE 2 * k])
BankNormalized(V, w) ==
  Ptr([k \in 1 .. (V + 1) |-> IF k = V + 1 THEN w ELSE 10 * k])

\* aCalibrationVectors: n pointers, at most one of them NULL.
CalibrationArrays(n, V, w) ==
  {[i \in 1 .. n |-> IF i = nullAt THEN NULL ELSE BankCalibration(V, i - 1, w)] :
     nullAt \in 0 .. n}

BankArgs ==
  UNION {
    {[n |-> n, pins |-> p, V |-> V, calv |-> c, calvPastNull |-> b, nv |-> nv] :
       p \in PinArrays(n), c \in CalibrationArrays(n, V, w),
       b \in (IF V > n THEN BOOLEAN ELSE {FALSE}),
       nv \in {NULL, BankNormalized(V, w)}} :
    n \in 0 .. (MAX_NUM_ANALOGUE_INPUTS + 1), V \in 1 .. MaxVectorSize,
    w \in PastWords}

\* One channel, every small strictly ascending table with every small
\* normalized table, the scenario table of the documentation, and a long one.
NormalizedValues == {0, 7}
AscendingTables(V) ==
  {s \in [1 .. V -> 1 .. (MaxRaw - 1)] : StrictlyAscending(s)}
ScenarioSegments == <<5, 30, 88, 499>>
ScenarioNormalized == <<150, 98, 64, 32>>
BigSegments == [k \in 1 .. BigV |-> k]
BigNormalized == [k \in 1 .. BigV |-> 2 * k]

TablePairs ==
  UNION {[1 .. V -> NormalizedValues] \X AscendingTables(V) : V \in 2 .. MaxVectorSize}
    \cup {<<ScenarioNormalized, ScenarioSegments>>, <<BigNormalized, BigSegments>>}

InterpArgs ==
  {[n |-> 1, pins |-> Ptr(<<0>>), V |-> Len(t[2]),
    calv |-> <<Ptr(Append(t[2], w))>>, calvPastNull |-> b,
    nv |-> Ptr(Append(t[1], wn))] :
     t \in TablePairs, w \in PastWords, wn \in PastWords, b \in BOOLEAN}

InterpSamples == (0 .. MaxRaw) \cup {47, 999} \cup {BigV, BigV + 1}
InterpSampleVectors == {[i \in Channels |-> x] : x \in InterpSamples}

(***************************************************************************)
(* The state machine.                                                      *)
(***************************************************************************)
\* The table-only revision's object before its constructor has run.
NoSensor ==
  [phase |-> "new", N |-> 0, _Pin |-> 0, _Count |-> 0, _Segments |-> NULL,
   _Normalized |-> NULL, _RawValue |-> 0, _StatusCode |-> "F_NOT_INITIALIZED",
   _Segment |-> 0, _Value |-> 0, probed |-> {}, lastOp |-> "none", ret |-> FALSE]

\* Before the constructor has run there is no object: the fields hold
\* placeholders and no operation is enabled.
Unconstructed ==
  /\ phase = "new"
  /\ args = [n |-> 0, pins |-> NULL, V |-> 0, calv |-> <<>>,
             calvPastNull |-> FALSE, nv |-> NULL]
  /\ _StatusCode = "F_Uninitialized"
  /\ _SensorCount = 0
  /\ _VectorSize = 0
  /\ _Pins = [i \in Channels |-> 0]
  /\ _CalibrationVectors = [i \in Channels |-> NULL]
  /\ _NormalizedVector = NULL
  /\ _Inputs = [i \in Channels |-> FALSE]
  /\ _IOwnInputs = FALSE
  /\ Readings = [i \in Channels |-> 0]
  /\ Normalized = [i \in Channels |-> 0]
  /\ _SegmentBases = [i \in Channels |-> 0]
  /\ lastOp = "none"
  /\ ret = FALSE
  /\ trace = <<>>
  /\ sensor = NoSensor

\* DataNormalizer::DataNormalizer(a): Init, and InitInputs if Init succeeded.
\* Init clears _Inputs and _IOwnInputs first; it copies the arguments only
\* after every check has passed.  The constructor initializes none of
\* Readings, Normalized, _SegmentBases: Readings, which Normalize reads, starts
\* with whatever the memory held (g).
DataNormalizer(a, g) ==
  /\ phase = "new"
  /\ phase' = "constructed"
  /\ args' = a
  /\ _StatusCode' = Init(a)
  /\ IF Init(a) = "S_OK"
       THEN /\ _SensorCount' = a.n
            /\ _VectorSize' = a.V
            /\ _Pins' = [i \in Channels |-> IF i < a.n THEN a.pins.mem[i + 1] ELSE _Pins[i]]
            /\ _CalibrationVectors' =
                 [i \in Channels |-> IF i < a.n THEN a.calv[i + 1]
                                     ELSE _CalibrationVectors[i]]
            /\ _NormalizedVector' = a.nv
            /\ _IOwnInputs' = TRUE
            /\ _Inputs' = [i \in Channels |-> i < a.n]
       ELSE /\ _IOwnInputs' = FALSE
            /\ _Inputs' = [i \in Channels |-> FALSE]
            /\ UNCHANGED <<_SensorCount, _VectorSize, _Pins, _CalibrationVectors,
                           _NormalizedVector>>
  /\ Readings' = [i \in Channels |-> g]
  /\ lastOp' = "DataNormalizer"
  /\ ret' = (Init(a) = "S_OK")
  /\ trace' = IF Init(a) = "S_OK" THEN <<"Init", "InitInputs">> ELSE <<"Init">>
  /\ UNCHANGED <<Normalized, _SegmentBases, sensor>>

\* What a read through a NULL calibration pointer finds at address 0: memory
\* the program does not own.
NullImages == {Ptr([k \in 1 .. (_VectorSize + 1) |-> w]) : w \in PastWords}

\* The loop of Normalize over the channels, on the readings given.
NormalizeLoop(readings, image) ==
  [i \in Channels |->
     IF i < _SensorCount
       THEN Compensate(readings[i],
                       IF _CalibrationVectors[i].null THEN image
                       ELSE _CalibrationVectors[i])
       ELSE [value |-> Normalized[i], aIndex |-> _SegmentBases[i]]]

\* The loop of Read: one sample per channel, from _Inputs[i]->Read() or from
\* analogRead(_Pins[i]); either is whatever the input delivers.
ReadLoop(samples) ==
  [i \in Channels |-> IF i < _SensorCount THEN samples[i] ELSE Readings[i]]

\* A faulty variant of Normalize, for the mutation check of C3: the status
\* test left out.
NormalizeUnguarded ==
  /\ phase = "constructed"
  /\ lastOp' = "Normalize"
  /\ trace' = <<"Normalize">>
  /\ \E image \in NullImages :
       LET r == NormalizeLoop(Readings, image) IN
         /\ Normalized' = [i \in Channels |-> r[i].value]
         /\ _SegmentBases' = [i \in Channels |-> r[i].aIndex]
         /\ ret' = TRUE
  /\ UNCHANGED <<sensor, phase, args, _StatusCode, _SensorCount, _VectorSize, _Pins,
                 _CalibrationVectors, _NormalizedVector, _Inputs, _IOwnInputs,
                 Readings>>
\* bool DataNormalizer::Normalize()
Normalize ==
  /\ phase = "constructed"
  /\ lastOp' = "Normalize"
  /\ trace' = <<"Normalize">>
  /\ IF _StatusCode # "S_OK"
       THEN /\ ret' = FALSE
            /\ UNCHANGED <<Normalized, _SegmentBases>>
       ELSE \E image \in NullImages :
              LET r == NormalizeLoop(Readings, image) IN
                /\ Normalized' = [i \in Channels |-> r[i].value]
                /\ _SegmentBases' = [i \in Channels |-> r[i].aIndex]
                /\ ret' = TRUE
  /\ UNCHANGED <<sensor, phase, args, _StatusCode, _SensorCount, _VectorSize, _Pins,
                 _CalibrationVectors, _NormalizedVector, _Inputs, _IOwnInputs,
                 Readings>>

\* bool DataNormalizer::Read()
Read(S) ==
  /\ phase = "constructed"
  /\ lastOp' = "Read"
  /\ trace' = <<"Read">>
  /\ IF _StatusCode # "S_OK"
       THEN /\ ret' = FALSE
            /\ UNCHANGED Readings
       ELSE /\ \E samples \in S : Readings' = ReadLoop(samples)
            /\ ret' = TRUE
  /\ UNCHANGED <<sensor, phase, args, _StatusCode, _SensorCount, _VectorSize, _Pins,
                 _CalibrationVectors, _NormalizedVector, _Inputs, _IOwnInputs,
                 Normalized, _SegmentBases>>

\* bool DataNormalizer::ReadAndNormalize(): Read(), and Normalize() on the
\* readings it stored unless Read() returned false.
ReadAndNormalize(S) ==
  /\ phase = "constructed"
  /\ lastOp' = "ReadAndNormalize"
  /\ IF _StatusCode # "S_OK"
       THEN /\ ret' = FALSE
            /\ trace' = <<"Read">>
            /\ UNCHANGED <<Readings, Normalized, _SegmentBases>>
       ELSE /\ trace' = <<"Read", "Normalize">>
            /\ \E samples \in S, image \in NullImages :
                 LET r == NormalizeLoop(ReadLoop(samples), image) IN
                   /\ Readings' = ReadLoop(samples)
                   /\ Normalized' = [i \in Channels |-> r[i].value]
                   /\ _SegmentBases' = [i \in Channels |-> r[i].aIndex]
            /\ ret' = TRUE
  /\ UNCHANGED <<sensor, phase, args, _StatusCode, _SensorCount, _VectorSize, _Pins,
                 _CalibrationVectors, _NormalizedVector, _Inputs, _IOwnInputs>>

\* bool DataNormalizer::setInputs(BaseAnalogRead* aInputs[]): aInputs[i] is
\* NULL or a reader (TRUE).  The function has no return statement behind its
\* loop, so on a Ready bank what the caller receives is not fixed.
setInputs(aInputs) ==
  /\ phase = "constructed"
  /\ lastOp' = "setInputs"
  /\ trace' = <<"setInputs">>
  /\ IF _StatusCode # "S_OK"
       THEN /\ ret' = FALSE
            /\ UNCHANGED _Inputs
       ELSE /\ _Inputs' = [i \in Channels |-> IF i < _SensorCount THEN aInputs[i]
                                              ELSE _Inputs[i]]
            /\ ret' \in BOOLEAN
  /\ UNCHANGED <<sensor, phase, args, _StatusCode, _SensorCount, _VectorSize, _Pins,
                 _CalibrationVectors, _NormalizedVector, _IOwnInputs,
                 Readings, Normalized, _SegmentBases>>

\* The reader arrays handed to setInputs: all readers, or all NULL.
InputArrays == {[i \in Channels |-> b] : b \in BOOLEAN}

\* The bank: every argument tuple of BankArgs.
Construct ==
  /\ phase = "new"
  /\ \E a \in BankArgs, g \in BankSamples : DataNormalizer(a, g)
Next ==
  \/ Construct
  \/ Read(BankSampleVectors)
  \/ Normalize
  \/ ReadAndNormalize(BankSampleVectors)
  \/ \E aInputs \in InputArrays : setInputs(aInputs)
Spec == Unconstructed /\ [][Next]_vars

\* The interpolator: one channel over every table of TablePairs.
ConstructInterp ==
  /\ phase = "new"
  /\ \E a \in InterpArgs : DataNormalizer(a, 0)
NextInterp ==
  \/ ConstructInterp
  \/ Read(InterpSampleVectors)
  \/ Normalize
  \/ ReadAndNormalize(InterpSampleVectors)
SpecInterp == Unconstructed /\ [][NextInterp]_vars

(***************************************************************************)
(* The table-only revision: one sensor, one table.  Its object is the      *)
(* record sensor: the data members of the class, the element count N the   *)
(* constructor was given, the indices of the segment array that Init read  *)
(* (probed), and the last member function called with what it returned.    *)
(* _RawValue, _Value and _Segment are not initialized by the constructor;  *)
(* no member function modelled here reads them before writing them.        *)
(***************************************************************************)
TableStatusCodes ==
  {"S_OK", "F_NOT_INITIALIZED", "F_SEGMENTS_NOT_ASCENDING", "F_NOT_ENOUGH_DATA"}

\* The variables of the multi-sensor object, which this revision lacks.
bankVars == <<phase, args, _StatusCode, _SensorCount, _VectorSize, _Pins,
              _CalibrationVectors, _NormalizedVector, _Inputs, _IOwnInputs,
              Readings, Normalized, _SegmentBases, lastOp, ret, trace>>

\* int -> byte (unsigned, 8 bits): the value modulo 2^8.
ToByte(x) == x % 256

\* void Init(): the status it leaves, and the indices of _Segments it read.
\* The loop stops at the first pair that is not ascending.
TableInit(Count, Segments) ==
  IF Count < 1
    THEN [status |-> "F_NOT_ENOUGH_DATA", probed |-> {}]
  ELSE LET bad == {i \in 0 .. (Count - 1) : At(Segments, i) >= At(Segments, i + 1)} IN
       IF bad # {}
         THEN [status |-> "F_SEGMENTS_NOT_ASCENDING", probed |-> 0 .. (First(bad) + 1)]
       ELSE [status |-> "S_OK", probed |-> 0 .. Count]

\* DataNormalizer(aAnalogueInputPinNumber, aNumberOfArrayElements,
\*                aSegmentArray, aNormalizedArray)
TableDataNormalizer(aPin, aN, aSegmentArray, aNormalizedArray) ==
  /\ sensor.phase = "new"
  /\ LET count == ToByte(aN - 1)
         init == TableInit(count, aSegmentArray)
     IN sensor' = [phase |-> "constructed", N |-> aN, _Pin |-> aPin,
                   _Count |-> count, _Segments |-> aSegmentArray,
                   _Normalized |-> aNormalizedArray, _RawValue |-> 0,
                   _StatusCode |-> init.status, _Segment |-> 0, _Value |-> 0,
                   probed |-> init.probed, lastOp |-> "DataNormalizer",
                   ret |-> FALSE]
  /\ UNCHANGED bankVars

\* The body Read and setRawValue share once the raw value is known.
TableStore(op, aValue) ==
  LET c == TableCompensate(aValue, sensor._Count, sensor._Segments,
                           sensor._Normalized)
  IN sensor' = [sensor EXCEPT !._RawValue = aValue, !._Value = c.value,
                              !._Segment = c.aIndex, !.lastOp = op,
                              !.ret = TRUE]

\* bool Read(): S is what analogRead(_Pin) may deliver.
TableRead(S) ==
  /\ sensor.phase = "constructed"
  /\ IF sensor._StatusCode # "S_OK"
       THEN sensor' = [sensor EXCEPT !.lastOp = "Read", !.ret = FALSE]
       ELSE \E x \in S : TableStore("Read", x)
  /\ UNCHANGED bankVars

\* bool setRawValue(int aValue)
setRawValue(aValue) ==
  /\ sensor.phase = "constructed"
  /\ IF sensor._StatusCode # "S_OK"
       THEN sensor' = [sensor EXCEPT !.lastOp = "setRawValue", !.ret = FALSE]
       ELSE TableStore("setRawValue", aValue)
  /\ UNCHANGED bankVars

\* The constructor's arguments: every element count 0 .. MaxVectorSize with
\* every segment array over 1 .. MaxRaw-1, ascending or not, and every
\* normalized array over NormalizedValues.  An array of no elements shows
\* the 256 words of memory that lie where its elements would: ascending,
\* or all equal.
TablePins == {0, MAX_NUM_ANALOGUE_INPUTS - 1}
UnownedImages ==
  {[k \in 1 .. 256 |-> k]} \cup {[k \in 1 .. 256 |-> w] : w \in PastWords}
TableSegmentArrays(n) ==
  IF n = 0 THEN {Ptr(m) : m \in UnownedImages}
  ELSE {Ptr(Append(t, w)) : t \in [1 .. n -> 1 .. (MaxRaw - 1)], w \in PastWords}
TableNormalizedArrays(n) ==
  IF n = 0 THEN {Ptr([k \in 1 .. 256 |-> w]) : w \in PastWords}
  ELSE {Ptr(Append(t, 0)) : t \in [1 .. n -> NormalizedValues]}

TableConstruct ==
  /\ sensor.phase = "new"
  /\ \E aPin \in TablePins, n \in 0 .. MaxVectorSize :
       \E sa \in TableSegmentArrays(n), na \in TableNormalizedArrays(n) :
         TableDataNormalizer(aPin, n, sa, na)
NextTable ==
  \/ TableConstruct
  \/ TableRead(InterpSamples)
  \/ \E aValue \in InterpSamples : setRawValue(aValue)
SpecTable == Unconstructed /\ [][NextTable]_vars

(***************************************************************************)
(* Vocabulary of the properties.                                           *)
(***************************************************************************)
Ready == phase = "constructed" /\ _StatusCode = "S_OK"
NotReady == phase = "constructed" /\ _StatusCode # "S_OK"

\* Immediately after a successful Normalize or ReadAndNormalize.
JustNormalized ==
  Ready /\ lastOp \in {"Normalize", "ReadAndNormalize"} /\ ret = TRUE

\* The channels of the bank that have a calibration table.
Configured == {i \in Channels : i < _SensorCount}
WithTable == {i \in Configured : ~_CalibrationVectors[i].null}

\* Channel i's breakpoints and the normalized table, as the caller's arrays
\* (1-based sequences: breakpoints[k] of the text is Breakpoints(i)[k + 1]).
Breakpoints(i) == Elements(_CalibrationVectors[i])
NormalizedTable == Elements(_NormalizedVector)

\* The index of the first breakpoint with r <= breakpoints[k], minus one; the
\* table's size when r exceeds them all.
LocateSegment(r, bp) ==
  LET hits == {k \in 0 .. (Len(bp) - 1) : r <= bp[k + 1]} IN
  IF hits = {} THEN Len(bp) ELSE First(hits) - 1

\* normalized[s] + (r - breakpoints[s]) * (normalized[s+1] - normalized[s])
\*   / (breakpoints[s+1] - breakpoints[s]), the division truncating.
Interpolated(r, bp, nt, s) ==
  nt[s + 1] + TruncDiv((r - bp[s + 1]) * (nt[s + 2] - nt[s + 1]), bp[s + 2] - bp[s + 1])

(***************************************************************************)
(* C1.  Above the table: for strictly ascending breakpoints and a raw      *)
(* value above breakpoints[V-1], Compensate returns normalized[V-1] and    *)
(* leaves the marker SEGMENT_INDEX_HIGH, whatever lies behind the tables.  *)
(***************************************************************************)
C1_AboveRangeClampsToLast ==
  JustNormalized =>
    \A i \in WithTable :
      (StrictlyAscending(Breakpoints(i)) /\ Readings[i] > Breakpoints(i)[_VectorSize])
        => /\ Normalized[i] = NormalizedTable[_VectorSize]
           /\ _SegmentBases[i] = SEGMENT_INDEX_HIGH

(***************************************************************************)
(* C2.  A Ready bank has a calibration table for every channel             *)
(* 0 .. sensor_count-1: when checks 1-4 pass and one of the sensor_count   *)
(* calibration pointers is NULL, the status is F_MissingCalibrationVector. *)
(***************************************************************************)
ChecksOneToFourPass(a) ==
  /\ a.n <= MAX_NUM_ANALOGUE_INPUTS
  /\ ~a.pins.null
  /\ \A i \in 1 .. a.n : a.pins.mem[i] < MAX_NUM_ANALOGUE_INPUTS
  /\ a.V >= 2

C2_ReadyHasEveryCalibrationVector ==
  /\ Ready => \A i \in Configured : ~_CalibrationVectors[i].null
  /\ (phase = "constructed" /\ ChecksOneToFourPass(args)
        /\ \E i \in 1 .. args.n : args.calv[i].null)
       => _StatusCode = "F_MissingCalibrationVector"

(***************************************************************************)
(* C3.  On a bank that is not Ready, Read, Normalize and ReadAndNormalize  *)
(* return false and change none of Readings, Normalized, the segment       *)
(* markers and the status; ReadAndNormalize enters Read only.              *)
(***************************************************************************)
C3_NotReadyRefuses ==
  [][NotReady =>
       /\ ret' = FALSE
       /\ UNCHANGED <<Readings, Normalized, _SegmentBases, _StatusCode>>
       /\ (lastOp' = "ReadAndNormalize" => trace' = <<"Read">>)]_vars

C3_Witness ==
  /\ NotReady
  /\ _StatusCode = "F_MissingNormalizedVector"
  /\ lastOp = "ReadAndNormalize"
  /\ ret = FALSE
  /\ trace = <<"Read">>

(***************************************************************************)
(* C4.  The status after Init is the reason of the lowest-numbered rule    *)
(* the arguments violate, and S_OK exactly when they violate none.         *)
(***************************************************************************)
FirstViolatedRule(a) ==
  IF a.n > MAX_NUM_ANALOGUE_INPUTS THEN "F_BadNumberOfSensors"
  ELSE IF a.pins.null THEN "F_NoSensorList"
  ELSE IF \E i \in 1 .. a.n : a.pins.mem[i] >= MAX_NUM_ANALOGUE_INPUTS
    THEN "F_BadPinNumber"
  ELSE IF a.V < 2 THEN "F_BadVectorSize"
  ELSE IF \E i \in 1 .. a.n : a.calv[i].null THEN "F_MissingCalibrationVector"
  ELSE IF a.nv.null THEN "F_MissingNormalizedVector"
  ELSE "S_OK"

C4_StatusIsFirstViolatedRule ==
  phase = "constructed" => _StatusCode = FirstViolatedRule(args)

\* What does hold: the order of the checks, with rule 5 read as the code
\* reads it (the first V words at aCalibrationVectors) is Init itself; the
\* rules before it decide the status alone.
C4_RulesOneToFourInOrder ==
  (phase = "constructed" /\ ~ChecksOneToFourPass(args))
    => _StatusCode = FirstViolatedRule(args)

(***************************************************************************)
(* C5.  Inside the table: for strictly ascending breakpoints and           *)
(* breakpoints[0] < r <= breakpoints[V-1], Compensate leaves the marker at *)
(* the segment s with breakpoints[s] < r <= breakpoints[s+1] and returns   *)
(* the truncating interpolation on it; the scenario table maps 47 to 89.   *)
(***************************************************************************)
InsideTable(i) ==
  /\ StrictlyAscending(Breakpoints(i))
  /\ Breakpoints(i)[1] < Readings[i]
  /\ Readings[i] <= Breakpoints(i)[_VectorSize]

InterpolatesOn(i) ==
  LET s == LocateSegment(Readings[i], Breakpoints(i)) IN
    /\ s \in 0 .. (_VectorSize - 2)
    /\ _SegmentBases[i] = s
    /\ Normalized[i] = Interpolated(Readings[i], Breakpoints(i), NormalizedTable, s)
    /\ TableCompensate(Readings[i], _VectorSize - 1, _CalibrationVectors[i],
                       _NormalizedVector)
         = [value |-> Normalized[i], aIndex |-> s]
    /\ (/\ Breakpoints(i) = ScenarioSegments
        /\ NormalizedTable = ScenarioNormalized
        /\ Readings[i] = 47) => Normalized[i] = 89

C5_InterpolatesInsideTable ==
  JustNormalized => \A i \in WithTable : InsideTable(i) => InterpolatesOn(i)

\* What does hold: the same with no segment index beyond char's 127.
C5_InterpolatesWhileIndexFitsChar ==
  (JustNormalized /\ _VectorSize <= 129)
    => \A i \in WithTable : InsideTable(i) => InterpolatesOn(i)

C5_ScenarioReached ==
  /\ JustNormalized
  /\ Breakpoints(0) = ScenarioSegments
  /\ Readings[0] = 47
  /\ Normalized[0] = 89
  /\ _SegmentBases[0] = 1

(***************************************************************************)
(* C6.  Boundary exactness: Compensate maps breakpoints[0] to              *)
(* normalized[0] and breakpoints[V-1] to normalized[V-1].                  *)
(***************************************************************************)
ExactAtBoundaries(i) ==
  /\ Readings[i] = Breakpoints(i)[1] =>
       /\ Normalized[i] = NormalizedTable[1]
       /\ TableCompensate(Readings[i], _VectorSize - 1, _CalibrationVectors[i],
                          _NormalizedVector).value = NormalizedTable[1]
  /\ Readings[i] = Breakpoints(i)[_VectorSize] =>
       /\ Normalized[i] = NormalizedTable[_VectorSize]
       /\ TableCompensate(Readings[i], _VectorSize - 1, _CalibrationVectors[i],
                          _NormalizedVector).value = NormalizedTable[_VectorSize]

C6_ExactAtBoundaries ==
  JustNormalized =>
    \A i \in WithTable : StrictlyAscending(Breakpoints(i)) => ExactAtBoundaries(i)

\* What does hold: the same with no segment index beyond char's 127.
C6_ExactWhileIndexFitsChar ==
  (JustNormalized /\ _VectorSize <= 129) =>
    \A i \in WithTable : StrictlyAscending(Breakpoints(i)) => ExactAtBoundaries(i)

(***************************************************************************)
(* C7.  Below the table: for a raw value below breakpoints[0], Compensate  *)
(* returns normalized[0] and leaves the marker SEGMENT_INDEX_LOW, in the   *)
(* multi-channel code and in the table-only revision; it never             *)
(* extrapolates.                                                           *)
(***************************************************************************)
C7_BelowRangeClampsToFirst ==
  JustNormalized =>
    \A i \in WithTable :
      Readings[i] < Breakpoints(i)[1] =>
        /\ Normalized[i] = NormalizedTable[1]
        /\ _SegmentBases[i] = SEGMENT_INDEX_LOW
        /\ TableCompensate(Readings[i], _VectorSize - 1, _CalibrationVectors[i],
                           _NormalizedVector)
             = [value |-> NormalizedTable[1], aIndex |-> SEGMENT_INDEX_LOW]

\* A reading below a table whose first two normalized values differ, so that
\* an extrapolation would show.
C7_Witness ==
  /\ JustNormalized
  /\ 0 \in WithTable
  /\ Readings[0] < Breakpoints(0)[1]
  /\ NormalizedTable[1] # NormalizedTable[2]
  /\ Normalized[0] = NormalizedTable[1]
  /\ _SegmentBases[0] = SEGMENT_INDEX_LOW

(***************************************************************************)
(* C8.  Monotonic on a segment: when the reading r1 of a channel and       *)
(* another raw value r2 resolve to the same segment s of its table and     *)
(* r1 < r2, the outputs are ordered as normalized[s] and normalized[s+1]   *)
(* are (and the other way round for r2 < r1).                              *)
(***************************************************************************)
SameSegment(i, r2) ==
  /\ _SegmentBases[i] \in 0 .. (_VectorSize - 2)
  /\ Compensate(r2, _CalibrationVectors[i]).aIndex = _SegmentBases[i]

Ordered(lo, hi, s) ==
  /\ NormalizedTable[s + 1] <= NormalizedTable[s + 2] => lo <= hi
  /\ NormalizedTable[s + 1] >= NormalizedTable[s + 2] => lo >= hi

C8_MonotonicOnSegment ==
  JustNormalized =>
    \A i \in WithTable : \A r2 \in InterpSamples :
      SameSegment(i, r2) =>
        LET out2 == Compensate(r2, _CalibrationVectors[i]).value IN
          /\ Readings[i] < r2 => Ordered(Normalized[i], out2, _SegmentBases[i])
          /\ r2 < Readings[i] => Ordered(out2, Normalized[i], _SegmentBases[i])

\* Two values on one descending segment whose outputs differ.
C8_Witness ==
  /\ JustNormalized
  /\ 0 \in WithTable
  /\ \E r2 \in InterpSamples :
       /\ SameSegment(0, r2)
       /\ Readings[0] < r2
       /\ NormalizedTable[_SegmentBases[0] + 1] > NormalizedTable[_SegmentBases[0] + 2]
       /\ Normalized[0] > Compensate(r2, _CalibrationVectors[0]).value

(***************************************************************************)
(* C9.  Immediately after a successful Normalize or ReadAndNormalize on a  *)
(* Ready bank, every channel i in 0 .. sensor_count-1 has a calibration    *)
(* table of its own, and Normalized[i] and the marker are what Compensate  *)
(* gives for Readings[i] on that table and the shared normalized table.    *)
(***************************************************************************)
NormalizedFromOwnTable(i) ==
  /\ Normalized[i] = Compensate(Readings[i], _CalibrationVectors[i]).value
  /\ _SegmentBases[i] = Compensate(Readings[i], _CalibrationVectors[i]).aIndex

C9_NormalizedIsCompensateOfReading ==
  JustNormalized =>
    \A i \in Configured : ~_CalibrationVectors[i].null /\ NormalizedFromOwnTable(i)

\* What does hold: the same for the channels that have a table, and
\* Normalize leaves Readings alone.
C9_HoldsForChannelsWithTable ==
  JustNormalized => \A i \in WithTable : NormalizedFromOwnTable(i)

C9_NormalizeKeepsReadings ==
  [][lastOp' = "Normalize" => UNCHANGED Readings]_vars

(***************************************************************************)
(* C10.  For every accepted table size and strictly ascending table, what  *)
(* FindPosition returns is the index of the first breakpoint with          *)
(* r <= breakpoints[i], minus one, or V when r exceeds them all: a value   *)
(* in -1 .. V.                                                             *)
(***************************************************************************)
C10_FindPositionIsLocateSegment ==
  Ready =>
    \A i \in WithTable :
      StrictlyAscending(Breakpoints(i)) =>
        /\ FindPosition(Readings[i], _CalibrationVectors[i])
             = LocateSegment(Readings[i], Breakpoints(i))
        /\ FindPosition(Readings[i], _CalibrationVectors[i]) \in -1 .. _VectorSize

\* What does hold: the same while the reading does not exceed the last
\* breakpoint and no index goes beyond char's 127.
C10_HoldsInsideSmallTable ==
  (Ready /\ _VectorSize <= 127) =>
    \A i \in WithTable :
      (StrictlyAscending(Breakpoints(i)) /\ Readings[i] <= Breakpoints(i)[_VectorSize])
        => FindPosition(Readings[i], _CalibrationVectors[i])
             = LocateSegment(Readings[i], Breakpoints(i))

(***************************************************************************)
(* C11.  In the table-only revision, constructing a normalizer with N      *)
(* table elements leaves status F_NOT_ENOUGH_DATA whenever N < 2,          *)
(* otherwise F_SEGMENTS_NOT_ASCENDING whenever some adjacent pair has      *)
(* segments[i] >= segments[i+1], otherwise S_OK, and the ascending check   *)
(* reads only elements 0 .. N-1 of the segment array.                      *)
(***************************************************************************)
TableConstructed == sensor.phase = "constructed"

\* The N elements of the caller's segment array (1-based).
TableSegments == SubSeq(sensor._Segments.mem, 1, sensor.N)

TableExpectedStatus ==
  IF sensor.N < 2 THEN "F_NOT_ENOUGH_DATA"
  ELSE IF ~StrictlyAscending(TableSegments) THEN "F_SEGMENTS_NOT_ASCENDING"
  ELSE "S_OK"

C11_StatusFollowsTable ==
  TableConstructed =>
    /\ sensor._StatusCode = TableExpectedStatus
    /\ sensor.probed \subseteq 0 .. (sensor.N - 1)

\* What does hold: the same for every N >= 1.
C11_HoldsForNonEmptyTable ==
  (TableConstructed /\ sensor.N >= 1) =>
    /\ sensor._StatusCode = TableExpectedStatus
    /\ sensor.probed \subseteq 0 .. (sensor.N - 1)

\* N = 0: _Count is 255, the check runs over memory the table does not own
\* and the status is whatever that memory makes it, never F_NOT_ENOUGH_DATA.
C11_EmptyTableIsChecked ==
  (TableConstructed /\ sensor.N = 0) =>
    /\ sensor._Count = 255
    /\ sensor._StatusCode \in {"F_SEGMENTS_NOT_ASCENDING", "S_OK"}
    /\ sensor.probed # {}
C11_EmptyTableAccepted ==
  TableConstructed /\ sensor.N = 0 /\ sensor._StatusCode = "S_OK"
C11_EmptyTableRejected ==
  TableConstructed /\ sensor.N = 0 /\ sensor._StatusCode = "F_SEGMENTS_NOT_ASCENDING"

\* What does hold: Read and setRawValue return false and leave the raw and
\* the normalized value alone unless the status is S_OK, and return true
\* when it is.
C11_NotOkRefuses ==
  [][TableConstructed =>
       IF sensor._StatusCode # "S_OK"
         THEN /\ sensor'.ret = FALSE
              /\ sensor'._RawValue = sensor._RawValue
              /\ sensor'._Value = sensor._Value
              /\ sensor'._StatusCode = sensor._StatusCode
         ELSE /\ sensor'.ret = TRUE
              /\ sensor'._Value = TableCompensate(sensor'._RawValue, sensor._Count,
                                    sensor._Segments, sensor._Normalized).value]_vars
C11_RefusalReached ==
  /\ TableConstructed /\ sensor.N >= 2
  /\ sensor._StatusCode = "F_SEGMENTS_NOT_ASCENDING"
  /\ sensor.lastOp \in {"Read", "setRawValue"} /\ sensor.ret = FALSE

====
